---- MODULE Spec2Model ----
(***************************************************************************)
(* Model of need_to_shovel.js: a scheduled function that reads a           *)
(* "last message sent" marker, fetches two days of hourly precipitation,   *)
(* sums the snow of the overnight window and sends a push notification     *)
(* when the total exceeds a time-dependent threshold.                      *)
(*                                                                         *)
(* Time.  An instant is an integer.  Every quarter of an hour holds two    *)
(* instants: the quarter itself (millisecond component 0) and the quarter  *)
(* plus a few milliseconds (millisecond component not 0).  At(h, m, ms)    *)
(* names the instant of day 0; a calendar day is DayLen instants long.     *)
(***************************************************************************)
EXTENDS Integers, Sequences, FiniteSets, TLC

\* ------------------------------------------------------------------ bounds
\* Calendar days the clock runs over (days 1 .. MaxDay).
MaxDay == 2
\* Invocations of the entry point in one behaviour.
MaxInv == 2

\* --------------------------------------------------------------- constants
MINIMUM_SNOW_0500 == 40
MINIMUM_SNOW_0600 == 20
MINIMUM_SNOW_0630 == 5

\* ------------------------------------------------------------ moment() ops
At(h, m, ms) == (h * 4 + (m \div 15)) * 2 + ms
HourLen == At(1, 0, 0)
DayLen == At(24, 0, 0)

\* moment.format("YYYY-MM-DD"): the calendar day of an instant.
FormatDate(t) == t \div DayLen
startOfDay(t) == t - (t % DayLen)
HourOf(t) == (t % DayLen) \div HourLen
\* .hours(h): replaces the hour component, keeps minutes and milliseconds.
setHours(t, h) == t - HourOf(t) * HourLen + h * HourLen
\* .minutes(m): replaces the minute component, keeps hour and milliseconds.
setMinutes(t, m) == t - (t % HourLen) + At(0, m, 0) + (t % 2)
\* .seconds(0): the grid holds no instant with a second component.
setSeconds0(t) == t
\* .milliseconds(0)
setMilliseconds0(t) == t - (t % 2)
subtractDay(t) == t - DayLen

\* Variant: isSameOrAfter in place of isAfter.
isSameOrAfter(a, b) == a >= b
\* moment.isAfter: strict.
isAfter(a, b) == a > b
\* Variant: isBetween(from, to, null, '[)'), inclusive at the lower end.
isBetweenFromInclusive(t, from, to) == from <= t /\ t < to
\* moment.isBetween(from, to): exclusive at both ends.
isBetween(t, from, to) == from < t /\ t < to

\* ------------------------------------------------------------- the inputs
\* Times of day the clock visits (an instant with ms = 1 is "a few
\* milliseconds past" the quarter).
TimesOfDay ==
  { At(4, 45, 0), At(5, 0, 0), At(5, 0, 1), At(6, 0, 0), At(6, 15, 0),
    At(6, 30, 0), At(6, 30, 1) }
Days == 1 .. MaxDay
ClockPoints == { d * DayLen + t : d \in Days, t \in TimesOfDay }

\* Hours of the day the weather provider reports a sample for, and the
\* accumulations (cm) a sample may carry; a sample may also carry none.
\* Main*: the responses of the invocations.  The 22:00 sample of yesterday
\* lies in the window and that of today on its upper border, so the totals
\* 0, 5, 6, 20, 21, 40, 41 occur at every instant and sums of two of them at
\* the instants with milliseconds.
\* Agg*: the responses the aggregation is applied to on its own: for
\* yesterday a sample on the lower border (21:00) and two inside, for today
\* one inside, one on the upper border (22:00) and one outside (23:00).
MainHours == << 22 >>
MainAcc == { 5, 6, 20, 21, 40, 41 }
AggHours == << 21, 22, 23 >>
AggAcc == { 1, 2 }

\* A sample of hourly.data: its time, and precipAccumulation when present
\* (Absent stands for a sample without the field).
Absent == 0 - 1
Sample(t, a) ==
  IF a = Absent THEN [time |-> t] ELSE [time |-> t, precipAccumulation |-> a]
\* The responses hourly.data of the provider for calendar day d.
Responses(d, hours, acc) ==
  { [i \in 1 .. Len(hours) |-> Sample(d * DayLen + hours[i] * HourLen, o[i])] :
      o \in [1 .. Len(hours) -> acc \cup { Absent }] }
NoResp == << >>

\* ------------------------------------------------------- the snow aggregator
\* x.precipAccumulation || 0
snowOf(x) ==
  IF "precipAccumulation" \in DOMAIN x /\ x.precipAccumulation # 0
  THEN x.precipAccumulation ELSE 0
yesterdayEvening(t) ==
  setMilliseconds0(setSeconds0(setMinutes(setHours(subtractDay(t), 21), 0)))
todayMorning(t) == setSeconds0(setMinutes(setHours(t, 22), 0))
\* The filter of snowArray.
inWindow(x, t) == isBetween(x.time, yesterdayEvening(t), todayMorning(t))
RECURSIVE reduceSnow(_, _, _)
reduceSnow(data, t, sum) ==
  IF data = << >> THEN sum
  ELSE reduceSnow(Tail(data), t,
                  IF inWindow(Head(data), t) THEN sum + snowOf(Head(data)) ELSE sum)
\* snowTotal of yesterday.hourly.data.concat(today.hourly.data) at instant t.
SnowTotal(y, td, t) == reduceSnow(y \o td, t, 0)

\* ----------------------------------------------------------- the notifier
time0500(t) == setHours(startOfDay(t), 5)
\* Variant: the .hours(6) left out.
time0600Early(t) == time0500(t)
time0600(t) == setHours(time0500(t), 6)
\* Variant: the .minutes(30) left out.
time0630NoMinutes(t) == time0600(t)
time0630(t) == setMinutes(time0600(t), 30)
\* Variant: the snow comparisons not strict.
ShouldNotifyNonStrict(t, snowLevel) ==
  \/ isAfter(t, time0500(t)) /\ snowLevel >= MINIMUM_SNOW_0500
  \/ isAfter(t, time0600(t)) /\ snowLevel >= MINIMUM_SNOW_0600
  \/ isAfter(t, time0630(t)) /\ snowLevel >= MINIMUM_SNOW_0630
\* The condition of pushNotificationIfNeeded's if.
ShouldNotify(t, snowLevel) ==
  \/ isAfter(t, time0500(t)) /\ snowLevel > MINIMUM_SNOW_0500
  \/ isAfter(t, time0600(t)) /\ snowLevel > MINIMUM_SNOW_0600
  \/ isAfter(t, time0630(t)) /\ snowLevel > MINIMUM_SNOW_0630
\* Variant: one p.send for each rule that matches.
sendsIssuedPerRule(t, snowLevel) ==
  (IF isAfter(t, time0500(t)) /\ snowLevel > MINIMUM_SNOW_0500 THEN 1 ELSE 0)
  + (IF isAfter(t, time0600(t)) /\ snowLevel > MINIMUM_SNOW_0600 THEN 1 ELSE 0)
  + (IF isAfter(t, time0630(t)) /\ snowLevel > MINIMUM_SNOW_0630 THEN 1 ELSE 0)
\* The calls of p.send pushNotificationIfNeeded makes: the one of the single
\* if, whichever of its rules match.
sendsIssued(t, snowLevel) == IF ShouldNotify(t, snowLevel) THEN 1 ELSE 0
\* What pushNotificationIfNeeded returns: "return true" sits in the send
\* callback, so the function itself always reaches "return false".
pushNotificationReturns(notified) == FALSE
\* Whether the send callback goes on to context.storage.set: the error
\* branch calls cb(err) and does not return.
sendCallbackStores(err) == TRUE

\* ------------------------------------------------------------- the dedup gate
NoData == << >>
\* Variant: the gate never closes.
AlreadySentNever(data, t) == FALSE
\* Variant: the marker compared with yesterday's date.
AlreadySentStale(data, t) ==
  "lastMessageSent" \in DOMAIN data /\ data.lastMessageSent = FormatDate(t) - 1
\* Variant: the marker compared with the unformatted instant.
AlreadySentUnformatted(data, t) ==
  "lastMessageSent" \in DOMAIN data /\ data.lastMessageSent = t
\* data && (data.lastMessageSent == today)
AlreadySent(data, t) ==
  "lastMessageSent" \in DOMAIN data /\ data.lastMessageSent = FormatDate(t)

\* -------------------------------------------------------------------- state
VARIABLES
  now,          \* the clock
  storage,      \* context.storage: NoData or [lastMessageSent |-> day]
  inv,          \* invocations started so far
  pc,           \* "idle", "get", "fetch", "send", "set", "agg", "aggDone"
  fy, ft,       \* the two loadTime promises: "none", "pending", "ok", "err"
  reqDay,       \* the day the "today" request asks for
  yesterday, today,  \* the hourly data received
  snowTotal,
  onerrorFired, \* the Pushover onerror handler has run
  sendDay,      \* day on which the pending send was issued
  setArg,       \* the date handed to context.storage.set
  cbLog,        \* the calls of cb in this invocation, in order
  \* what this invocation has done
  dedup,        \* "none", "err", "already", "proceed"
  nWeather, nSend, nSet,
  evals,        \* << instant, snowLevel, notified >> of each evaluation
  sendResult,   \* "none", "pending", "ok", "err"
  firstErr,     \* the rejection Promise.all settled with, or "none"
  \* what all invocations have done
  sendsOn,      \* sends issued, per day
  setFailsOn,   \* failed marker writes of the sends issued, per day
  persisted,    \* the dates written to the store
  sentOkOn      \* the dates on which a send completed without error

vars ==
  << now, storage, inv, pc, fy, ft, reqDay, yesterday, today, snowTotal,
     onerrorFired, sendDay, setArg, cbLog, dedup, nWeather, nSend, nSet,
     evals, sendResult, firstErr, sendsOn, setFailsOn, persisted, sentOkOn >>

histVars == << sendsOn, setFailsOn, persisted, sentOkOn >>

\* cb(err, msg)
Call(err, msg) == [err |-> err, msg |-> msg]
NoMsg == << >>

Init ==
  /\ now = DayLen + At(4, 45, 0)
  /\ storage = NoData
  /\ inv = 0
  /\ pc = "idle"
  /\ fy = "none" /\ ft = "none"
  /\ reqDay = 0
  /\ yesterday = NoResp /\ today = NoResp
  /\ snowTotal = 0
  /\ onerrorFired = FALSE
  /\ sendDay = 0
  /\ setArg = 0
  /\ cbLog = << >>
  /\ dedup = "none"
  /\ nWeather = 0 /\ nSend = 0 /\ nSet = 0
  /\ evals = << >>
  /\ sendResult = "none"
  /\ firstErr = "none"
  /\ sendsOn = [d \in Days |-> 0]
  /\ setFailsOn = [d \in Days |-> 0]
  /\ persisted = {}
  /\ sentOkOn = {}

\* ------------------------------------------------------------------ actions
\* Time passes.
Tick ==
  /\ \E t \in ClockPoints : t > now /\ now' = t
  /\ UNCHANGED << storage, inv, pc, fy, ft, reqDay, yesterday, today, snowTotal,
                  onerrorFired, sendDay, setArg, cbLog, dedup, nWeather, nSend,
                  nSet, evals, sendResult, firstErr, histVars >>

\* module.exports(context, cb): the scheduler calls the entry point once the
\* previous invocation has no call outstanding; context.storage.get is issued.
Invoke ==
  /\ pc = "idle" /\ fy # "pending" /\ ft # "pending"
  /\ inv < MaxInv
  /\ inv' = inv + 1
  /\ pc' = "get"
  /\ fy' = "none" /\ ft' = "none"
  /\ yesterday' = NoResp /\ today' = NoResp
  /\ snowTotal' = 0
  /\ onerrorFired' = FALSE
  /\ cbLog' = << >>
  /\ dedup' = "none"
  /\ nWeather' = 0 /\ nSend' = 0 /\ nSet' = 0
  /\ evals' = << >>
  /\ sendResult' = "none"
  /\ firstErr' = "none"
  /\ reqDay' = 0 /\ sendDay' = 0 /\ setArg' = 0
  /\ UNCHANGED << now, storage, histVars >>

\* Variant: cb(error) without the return, so that the else branch runs too.
GetFailedNoReturn ==
  /\ pc = "get"
  /\ cbLog' = Append(cbLog, Call("getErr", NoMsg))
  /\ dedup' = "err"
  /\ fy' = "pending" /\ ft' = "pending"
  /\ reqDay' = FormatDate(startOfDay(now))
  /\ nWeather' = nWeather + 2
  /\ pc' = "fetch"
  /\ UNCHANGED << now, storage, inv, yesterday, today, snowTotal, onerrorFired,
                  sendDay, setArg, nSend, nSet, evals, sendResult, firstErr,
                  histVars >>

\* The callback of context.storage.get, called with an error.
GetFailed ==
  /\ pc = "get"
  /\ cbLog' = Append(cbLog, Call("getErr", NoMsg))
  /\ dedup' = "err"
  /\ pc' = "idle"
  /\ UNCHANGED << now, storage, inv, fy, ft, reqDay, yesterday, today, snowTotal,
                  onerrorFired, sendDay, setArg, nWeather, nSend, nSet, evals,
                  sendResult, firstErr, histVars >>

\* The callback of context.storage.get, called with the stored data: either
\* the message was already sent today, or getPrecipationData starts the two
\* loadTime requests.
GetDone ==
  /\ pc = "get"
  /\ IF AlreadySent(storage, now)
     THEN /\ cbLog' = Append(cbLog, Call("null", << "already" >>))
          /\ dedup' = "already"
          /\ pc' = "idle"
          /\ UNCHANGED << fy, ft, reqDay, nWeather >>
     ELSE /\ dedup' = "proceed"
          /\ fy' = "pending" /\ ft' = "pending"
          /\ reqDay' = FormatDate(startOfDay(now))
          /\ nWeather' = nWeather + 2
          /\ pc' = "fetch"
          /\ UNCHANGED cbLog
  /\ UNCHANGED << now, storage, inv, yesterday, today, snowTotal, onerrorFired,
                  sendDay, setArg, nSend, nSet, evals, sendResult, firstErr,
                  histVars >>

\* The .then handler of Promise.all: aggregation, pushNotificationIfNeeded
\* (which issues the send when a rule matches) and the call of cb that follows.
ThenHandler(y, td) ==
  LET total == SnowTotal(y, td, now)
      notify == ShouldNotify(now, total)
      msg == IF pushNotificationReturns(notify)
             THEN << "sent", total >> ELSE << "noNeed", total >>
  IN /\ snowTotal' = total
     /\ evals' = Append(evals, << now, total, notify >>)
     /\ cbLog' = Append(cbLog, Call("null", msg))
     /\ IF notify
        THEN /\ nSend' = nSend + sendsIssued(now, total)
             /\ sendResult' = "pending"
             /\ sendDay' = FormatDate(now)
             /\ sendsOn' = [sendsOn EXCEPT
                             ![FormatDate(now)] = @ + sendsIssued(now, total)]
             /\ pc' = "send"
        ELSE /\ pc' = "idle"
             /\ UNCHANGED << nSend, sendResult, sendDay, sendsOn >>
     /\ yesterday' = NoResp /\ today' = NoResp
     /\ UNCHANGED firstErr

\* Variant: the error logged and not handed to cb.
CatchHandlerSilent(err) ==
  /\ firstErr' = err
  /\ pc' = "idle"
  /\ yesterday' = NoResp /\ today' = NoResp
  /\ UNCHANGED << cbLog, snowTotal, evals, nSend, sendResult, sendDay, sendsOn >>

\* The .catch handler.
CatchHandler(err) ==
  /\ cbLog' = Append(cbLog, Call(err, NoMsg))
  /\ firstErr' = err
  /\ pc' = "idle"
  /\ yesterday' = NoResp /\ today' = NoResp
  /\ UNCHANGED << snowTotal, evals, nSend, sendResult, sendDay, sendsOn >>

\* Promise.all waits for the other promise.
Waiting ==
  UNCHANGED << snowTotal, evals, cbLog, nSend, sendResult, sendDay, sendsOn,
               firstErr, pc >>

\* Promise.all has settled before: a later result is dropped.
Dropped ==
  UNCHANGED << snowTotal, evals, cbLog, nSend, sendResult, sendDay, sendsOn,
               firstErr, pc, yesterday, today >>

\* The loadTime promise of yesterday resolves with the provider's data.
FetchYesterdayDone ==
  /\ fy = "pending"
  /\ \E r \in Responses(reqDay - 1, MainHours, MainAcc) :
       /\ fy' = "ok"
       /\ IF pc # "fetch" THEN Dropped
          ELSE IF ft = "ok" THEN ThenHandler(r, today)
          ELSE Waiting /\ yesterday' = r /\ UNCHANGED today
  /\ UNCHANGED << now, storage, inv, ft, reqDay, onerrorFired, setArg,
                  dedup, nWeather, nSet, setFailsOn, persisted, sentOkOn >>

\* Variant: the handler run on today's data without the join.
FetchTodayDoneNoJoin ==
  /\ ft = "pending"
  /\ \E r \in Responses(reqDay, MainHours, MainAcc) :
       /\ ft' = "ok"
       /\ IF pc # "fetch" THEN Dropped ELSE ThenHandler(yesterday, r)
  /\ UNCHANGED << now, storage, inv, fy, reqDay, onerrorFired, setArg,
                  dedup, nWeather, nSet, setFailsOn, persisted, sentOkOn >>

\* The loadTime promise of today resolves with the provider's data.
FetchTodayDone ==
  /\ ft = "pending"
  /\ \E r \in Responses(reqDay, MainHours, MainAcc) :
       /\ ft' = "ok"
       /\ IF pc # "fetch" THEN Dropped
          ELSE IF fy = "ok" THEN ThenHandler(yesterday, r)
          ELSE Waiting /\ today' = r /\ UNCHANGED yesterday
  /\ UNCHANGED << now, storage, inv, fy, reqDay, onerrorFired, setArg,
                  dedup, nWeather, nSet, setFailsOn, persisted, sentOkOn >>

\* The loadTime promise of yesterday rejects.
FetchYesterdayFailed ==
  /\ fy = "pending"
  /\ fy' = "err"
  /\ IF pc = "fetch" THEN CatchHandler("yesterdayErr") ELSE Dropped
  /\ UNCHANGED << now, storage, inv, ft, reqDay, onerrorFired,
                  setArg, dedup, nWeather, nSet, setFailsOn, persisted, sentOkOn >>

\* The loadTime promise of today rejects.
FetchTodayFailed ==
  /\ ft = "pending"
  /\ ft' = "err"
  /\ IF pc = "fetch" THEN CatchHandler("todayErr") ELSE Dropped
  /\ UNCHANGED << now, storage, inv, fy, reqDay, onerrorFired,
                  setArg, dedup, nWeather, nSet, setFailsOn, persisted, sentOkOn >>

\* The onerror handler given to Pushover: function(error) { cb(error) }.
SendOnError ==
  /\ pc = "send" /\ ~onerrorFired
  /\ onerrorFired' = TRUE
  /\ cbLog' = Append(cbLog, Call("pushoverErr", NoMsg))
  /\ UNCHANGED << now, storage, inv, pc, fy, ft, reqDay, yesterday, today,
                  snowTotal, sendDay, setArg, dedup, nWeather, nSend, nSet, evals,
                  sendResult, firstErr, histVars >>

\* The callback of p.send, called with err ("sendErr") or without ("null").
SendCallback(err) ==
  /\ pc = "send"
  /\ sendResult' = IF err = "null" THEN "ok" ELSE "err"
  /\ cbLog' = IF err = "null" THEN cbLog ELSE Append(cbLog, Call(err, NoMsg))
  /\ IF sendCallbackStores(err)
     THEN /\ setArg' = FormatDate(now)
          /\ nSet' = nSet + 1
          /\ pc' = "set"
     ELSE /\ pc' = "idle"
          /\ UNCHANGED << setArg, nSet >>
  /\ sentOkOn' = IF err = "null" THEN sentOkOn \cup { FormatDate(now) } ELSE sentOkOn
  /\ UNCHANGED << now, storage, inv, fy, ft, reqDay, yesterday, today, snowTotal,
                  onerrorFired, sendDay, dedup, nWeather, nSend, evals, firstErr,
                  sendsOn, setFailsOn, persisted >>

SendDone == SendCallback("null")
SendFailed == SendCallback("sendErr")

\* The callback of context.storage.set, called without an error: the store
\* holds the new marker.
SetDone ==
  /\ pc = "set"
  /\ storage' = [lastMessageSent |-> setArg]
  /\ persisted' = persisted \cup { setArg }
  /\ pc' = "idle"
  /\ UNCHANGED << now, inv, fy, ft, reqDay, yesterday, today, snowTotal,
                  onerrorFired, sendDay, setArg, cbLog, dedup, nWeather, nSend,
                  nSet, evals, sendResult, firstErr, sendsOn, setFailsOn, sentOkOn >>

\* Variant: the error of the marker write dropped.
SetFailedSilent ==
  /\ pc = "set"
  /\ setFailsOn' = [setFailsOn EXCEPT ![sendDay] = @ + 1]
  /\ pc' = "idle"
  /\ UNCHANGED << now, storage, inv, fy, ft, reqDay, yesterday, today, snowTotal,
                  onerrorFired, sendDay, setArg, cbLog, dedup, nWeather, nSend,
                  nSet, evals, sendResult, firstErr, sendsOn, persisted, sentOkOn >>

\* The callback of context.storage.set, called with an error.
SetFailed ==
  /\ pc = "set"
  /\ cbLog' = Append(cbLog, Call("setErr", NoMsg))
  /\ setFailsOn' = [setFailsOn EXCEPT ![sendDay] = @ + 1]
  /\ pc' = "idle"
  /\ UNCHANGED << now, storage, inv, fy, ft, reqDay, yesterday, today, snowTotal,
                  onerrorFired, sendDay, setArg, dedup, nWeather, nSend, nSet,
                  evals, sendResult, firstErr, sendsOn, persisted, sentOkOn >>

Next ==
  \/ Tick
  \/ Invoke
  \/ GetFailed
  \/ GetDone
  \/ FetchYesterdayDone
  \/ FetchTodayDone
  \/ FetchYesterdayFailed
  \/ FetchTodayFailed
  \/ SendOnError
  \/ SendDone
  \/ SendFailed
  \/ SetDone
  \/ SetFailed

Spec == Init /\ [][Next]_vars

\* Every call to a collaborator that is outstanding completes, with success
\* or with an error: the callback of storage.get, the two loadTime promises,
\* the callback of p.send and the callback of storage.set are each run.
Completion ==
  /\ WF_vars(GetDone \/ GetFailed)
  /\ WF_vars(FetchYesterdayDone \/ FetchYesterdayFailed)
  /\ WF_vars(FetchTodayDone \/ FetchTodayFailed)
  /\ WF_vars(SendDone \/ SendFailed)
  /\ WF_vars(SetDone \/ SetFailed)

SpecFair == Spec /\ Completion

\* ---------------------------------------- the aggregation on its own inputs
\* The .then handler's aggregation applied to any pair of responses at any
\* instant (the requests may have been made the day before the handler runs).
InitAgg ==
  /\ now \in ClockPoints
  /\ reqDay \in { FormatDate(now) - 1, FormatDate(now) }
  /\ yesterday \in Responses(reqDay - 1, AggHours, AggAcc)
  /\ today \in Responses(reqDay, AggHours, AggAcc)
  /\ pc = "agg"
  /\ storage = NoData
  /\ inv = 0
  /\ fy = "ok" /\ ft = "ok"
  /\ snowTotal = 0
  /\ onerrorFired = FALSE
  /\ sendDay = 0
  /\ setArg = 0
  /\ cbLog = << >>
  /\ dedup = "proceed"
  /\ nWeather = 2 /\ nSend = 0 /\ nSet = 0
  /\ evals = << >>
  /\ sendResult = "none"
  /\ firstErr = "none"
  /\ sendsOn = [d \in Days |-> 0]
  /\ setFailsOn = [d \in Days |-> 0]
  /\ persisted = {}
  /\ sentOkOn = {}

\* Lines 85-98: the window, the filter and the sum.
Aggregate ==
  /\ pc = "agg"
  /\ snowTotal' = SnowTotal(yesterday, today, now)
  /\ pc' = "aggDone"
  /\ UNCHANGED << now, storage, inv, fy, ft, reqDay, yesterday, today,
                  onerrorFired, sendDay, setArg, cbLog, dedup, nWeather, nSend,
                  nSet, evals, sendResult, firstErr, histVars >>

NextAgg == Aggregate

SpecAgg == InitAgg /\ [][NextAgg]_vars

\* ------------------------------------------------------------------ claims
TimeOfDay(t) == t % DayLen
Marker(d) == [lastMessageSent |-> d]
\* No call to a collaborator is outstanding.
Quiet == pc = "idle" /\ fy # "pending" /\ ft # "pending"
\* The sum of the accumulations (none counts 0) of the samples of data whose
\* time lies in lo .. hi.
RECURSIVE SumIn(_, _, _)
SumIn(data, lo, hi) ==
  IF data = << >> THEN 0
  ELSE (IF lo <= Head(data).time /\ Head(data).time <= hi
           /\ "precipAccumulation" \in DOMAIN Head(data)
        THEN Head(data).precipAccumulation ELSE 0)
       + SumIn(Tail(data), lo, hi)
Yesterday2100 == (FormatDate(now) - 1) * DayLen + At(21, 0, 0)
Today2200 == FormatDate(now) * DayLen + At(22, 0, 0)

\* C1 as stated: at most one notification send is issued per calendar day,
\* whatever the collaborators answer.
C1_AtMostOneSendPerDay == \A d \in Days : sendsOn[d] <= 1

\* C1 amended: a day sees at most one send more than marker writes that
\* failed after the sends of that day; with no failed write, at most one.
C1_OneSendPerDayUnlessWriteFails ==
  \A d \in Days : sendsOn[d] <= 1 + setFailsOn[d]

\* A second send on a day whose first marker write failed.
C1_Witness ==
  \E d \in Days : sendsOn[d] = 2 /\ setFailsOn[d] = 1 /\ d \in persisted

\* C2: context.storage.set is called only after a send that succeeded.
C2_SetOnlyAfterSuccessfulSend == nSet > 0 => sendResult = "ok"

\* C3: when the marker read equals today's date, the callback of
\* storage.get ends the invocation with cb(null, "already sent") and no
\* weather call, send or storage write is made.
C3_AlreadySentShortCircuits ==
  /\ [](dedup = "already" =>
          /\ Quiet
          /\ cbLog = << Call("null", << "already" >>) >>
          /\ nWeather = 0 /\ nSend = 0 /\ nSet = 0)
  /\ [][(pc = "get" /\ pc' # "get" /\ dedup' # "err"
          /\ storage = Marker(FormatDate(now)))
        => (dedup' = "already" /\ storage' = storage)]_vars

C3_Witness == dedup = "already" /\ cbLog # << >> /\ inv = 2

C5_NoSendUpToFive ==
  \A i \in DOMAIN evals :
    evals[i][2] <= 5 => (~evals[i][3] /\ nSend = 0 /\ nSet = 0)

C5_Witness ==
  \E i \in DOMAIN evals :
    /\ evals[i][2] = 5
    /\ TimeOfDay(evals[i][1]) > At(6, 30, 0)
    /\ nSend = 0

C7_MarkerAfterSuccessfulSend ==
  /\ []((Quiet /\ sendResult = "ok") => storage = Marker(setArg))
  /\ [][nSend' > nSend => FormatDate(now) \notin sentOkOn]_vars

\* C7 amended: once an invocation whose send and marker write both succeeded
\* is over, the marker is the date of the send's completion, and no send is
\* issued on a date that a marker write has stored.
C7_MarkerAfterSendAndWrite ==
  /\ []((Quiet /\ sendResult = "ok" /\ nSet = 1
          /\ cbLog[Len(cbLog)].err # "setErr")
        => (storage = Marker(setArg) /\ setArg >= sendDay))
  /\ [][nSend' > nSend => FormatDate(now) \notin persisted]_vars

C7_Witness ==
  /\ inv = 2 /\ dedup = "already"
  /\ sendsOn[FormatDate(now)] = 1
  /\ storage = Marker(FormatDate(now))

C9_FetchFailureAborts ==
  (fy = "err" \/ ft = "err") =>
    /\ Len(cbLog) = 1
    /\ cbLog[1].msg = NoMsg
    /\ \/ fy = "err" /\ cbLog[1].err = "yesterdayErr"
       \/ ft = "err" /\ cbLog[1].err = "todayErr"
    /\ evals = << >>
    /\ nSend = 0 /\ nSet = 0
    /\ pc = "idle"

\* The fetch of yesterday succeeded and the fetch of today failed.
C9_Witness == fy = "ok" /\ ft = "err" /\ cbLog # << >>

\* C10: when storage.get reports an error, cb is called with it and the run
\* stops: no weather call, no send, no storage write.
C10_GetFailureAborts ==
  dedup = "err" =>
    /\ cbLog = << Call("getErr", NoMsg) >>
    /\ nWeather = 0 /\ nSend = 0 /\ nSet = 0
    /\ Quiet

C10_Witness == dedup = "err" /\ inv = 2 /\ persisted # {}

\* Some call of cb in this invocation carried the error e.
CalledWith(e) == \E i \in DOMAIN cbLog : cbLog[i].err = e
\* A rule matches at instant t for the total s.
RuleMatches(t, s) ==
  \/ TimeOfDay(t) > At(5, 0, 0) /\ s > 40
  \/ TimeOfDay(t) > At(6, 0, 0) /\ s > 20
  \/ TimeOfDay(t) > At(6, 30, 0) /\ s > 5

\* C11: on the notify path an error of the send (reported to the send
\* callback or to the onerror handler) and an error of the marker write are
\* each handed to cb.
C11_NotifyFailuresSurfaced ==
  /\ [](sendResult = "err" => CalledWith("sendErr"))
  /\ [](onerrorFired => CalledWith("pushoverErr"))
  /\ [][setFailsOn' # setFailsOn
        => cbLog' = Append(cbLog, Call("setErr", NoMsg))]_vars

\* The send and the marker write of one invocation both failed.
C11_Witness ==
  /\ sendResult = "err" /\ CalledWith("sendErr") /\ CalledWith("setErr")
  /\ Quiet

\* C12: when no rule matches, no send is issued, storage.set is not called
\* and the marker stays as it was.
C12_NoMatchNoEffect ==
  /\ [](\A i \in DOMAIN evals :
          ~RuleMatches(evals[i][1], evals[i][2])
            => (nSend = 0 /\ nSet = 0 /\ Quiet))
  /\ [][(evals' # evals /\ ~RuleMatches(now, snowTotal'))
        => (storage' = storage /\ sendsOn' = sendsOn)]_vars

\* At 05:00 and a few milliseconds a total of 21 cm matches no rule.
C12_Witness ==
  /\ \E i \in DOMAIN evals :
       /\ TimeOfDay(evals[i][1]) = At(5, 0, 1)
       /\ evals[i][2] = 21
  /\ nSend = 0 /\ nSet = 0 /\ Quiet /\ inv = 2 /\ storage # NoData

\* C13: after a successful fetch the message handed to cb tells whether a
\* send was issued: "message has been sent" exactly when one was, "no need
\* to shovel" exactly when none was.
C13_MessageReportsOutcome ==
  \A i \in DOMAIN cbLog :
    (cbLog[i].err = "null" /\ Len(cbLog[i].msg) = 2) =>
      /\ cbLog[i].msg[2] = snowTotal
      /\ cbLog[i].msg[1] = "sent" <=> nSend > 0
      /\ cbLog[i].msg[1] = "noNeed" <=> nSend = 0

\* C15: one invocation issues at most one send, also when several rules
\* match at once.
C15_AtMostOneSendPerInvocation == nSend <= 1 /\ Len(evals) <= 1

\* After 06:30 with 41 cm all three rules match and one send is issued.
C15_Witness ==
  /\ \E i \in DOMAIN evals :
       /\ TimeOfDay(evals[i][1]) = At(6, 30, 1)
       /\ evals[i][2] = 41
  /\ nSend = 1

\* C16: cb is called at most once in an invocation.
C16_CallbackAtMostOnce == Len(cbLog) <= 1

\* C17: when a send is issued, cb is not called with a null error before the
\* send has completed and the marker write has been issued.
C17_NoSuccessBeforeSendCompletes ==
  (CalledWith("null") /\ nSend > 0) => (pc # "send" /\ nSet > 0)

\* The terminals of an invocation.
TAlreadySent == dedup = "already"
TErrorAbort == \E i \in DOMAIN cbLog : cbLog[i].err # "null"
TNoAction == evals # << >> /\ nSend = 0 /\ ~TErrorAbort
TNotifyPersist ==
  /\ nSend = 1 /\ sendResult = "ok"
  /\ nSet = 1 /\ storage = Marker(setArg)
  /\ ~TErrorAbort
TerminalsReached ==
  (IF TAlreadySent THEN 1 ELSE 0) + (IF TNoAction THEN 1 ELSE 0)
  + (IF TNotifyPersist THEN 1 ELSE 0) + (IF TErrorAbort THEN 1 ELSE 0)

C18_CallbackEventually ==
  /\ (pc = "get") ~> (cbLog # << >>)
  /\ []((Quiet /\ inv > 0) => cbLog # << >>)

\* The second invocation has called cb after a fetch failed.
C18_Witness ==
  inv = 2 /\ cbLog # << >> /\ firstErr # "none" /\ Quiet

====
